---- MODULE Spec2Model ----
(***************************************************************************)
(* Model of the payroll server (src/server.js): the SQLite tables users,   *)
(* weeks, time_entries and autosave, the express-session sessions, and one *)
(* action per route handler.  The two async handlers (register, login)     *)
(* suspend at bcrypt and are modelled as a Start and a Finish step; every  *)
(* other handler is synchronous and is one atomic step.                    *)
(***************************************************************************)
EXTENDS Integers, Sequences, FiniteSets, TLC

\* ------------------------------------------------------------------ bounds
\* weeks rows ever inserted (AUTOINCREMENT never reuses an id)
MaxWeeks == 2
\* autosave rows ever inserted
MaxAutosaves == 2
\* ticks of CURRENT_TIMESTAMP (one-second resolution)
MaxClock == 1

\* ------------------------------------------------------- program constants
MinPasswordLen == 4
DaysPerWeek == 7

\* ------------------------------------------------------------ value domain
\* JS null / SQL NULL, and JS undefined (a missing property)
Null == "<null>"
Undefined == "<undefined>"

Clients == {"c1", "c2"}
\* "" is the empty (falsy) username
Usernames == {"", "alice", "bob"}
\* passwords are character sequences: empty, too short, long enough
Passwords == {<<>>, <<1, 2, 3>>, <<1, 2, 3, 4>>}

\* JS truthiness of a string-or-null value, and `v || null`
Falsy(v) == v \in {Undefined, Null, ""}
OrNull(v) == IF Falsy(v) THEN Null ELSE v

\* a missing statement parameter is bound as NULL
Bind(v) == IF v = Undefined THEN Null ELSE v

\* bcrypt.hash / bcrypt.compare: the stored value is never the plaintext
BcryptHash(p) == <<0>> \o p
BcryptCompare(p, h) == h = BcryptHash(p)

\* ------------------------------------------------------------------- state
VARIABLES
    users,        \* table users: set of [id, username, password]
    weeks,        \* table weeks
    time_entries, \* table time_entries
    autosave,     \* table autosave
    seq,          \* sqlite_sequence: last AUTOINCREMENT id of each table
    sessions,     \* client -> session data (userId = 0: no session / anonymous)
    pending,      \* client -> its register/login request suspended at bcrypt
    now,          \* CURRENT_TIMESTAMP, in seconds
    resp,         \* the last response sent
    posted,       \* history: posted[id] is the request body that created week id
    calc          \* the timesheet form of the client page and its computed totals

store == <<users, weeks, time_entries, autosave, seq>>
vars == <<users, weeks, time_entries, autosave, seq, sessions, pending, now, resp, posted,
          calc>>

NoUser == [id |-> 0, username |-> "", password |-> <<>>]
NoSession == [userId |-> 0, username |-> ""]
NoPending == [kind |-> "none", username |-> "", password |-> <<>>, user |-> NoUser]

Response(c, route, status, error, id, body) ==
    [client |-> c, route |-> route, status |-> status, error |-> error,
     id |-> id, username |-> "", body |-> body]

\* a 200 response that carries a username
UserResponse(c, route, id, username) ==
    [client |-> c, route |-> route, status |-> 200, error |-> "",
     id |-> id, username |-> username, body |-> <<>>]

\* the form before a timesheet is entered: no day, nothing computed
NoCalc ==
    [times |-> <<>>, rate |-> 0, multiplier |-> 0, done |-> FALSE,
     total |-> 0, regular |-> 0, overtime |-> 0, gross |-> 0]

Init ==
    /\ users = {}
    /\ weeks = {}
    /\ time_entries = {}
    /\ autosave = {}
    /\ seq = [users |-> 0, weeks |-> 0, time_entries |-> 0, autosave |-> 0]
    /\ sessions = [c \in Clients |-> NoSession]
    /\ pending = [c \in Clients |-> NoPending]
    /\ now = 0
    /\ resp = Response("", "", 0, "", 0, <<>>)
    /\ posted = <<>>
    /\ calc = NoCalc

\* ------------------------------------------------------------- auth routes
\* mutant: requireAuth lets every request through
AuthenticatedAlways(c) == TRUE

\* requireAuth: req.session && req.session.userId
Authenticated(c) == sessions[c].userId # 0

FindUser(u) == {r \in users : r.username = u}

\* POST /api/register up to the await of bcrypt.hash
RegisterStart(c, u, p) ==
    /\ pending[c].kind = "none"
    /\ IF u = "" \/ p = <<>>
       THEN /\ resp' = Response(c, "POST /api/register", 400,
                                "Username and password required", 0, <<>>)
            /\ UNCHANGED pending
       ELSE IF Len(p) < MinPasswordLen
       THEN /\ resp' = Response(c, "POST /api/register", 400,
                                "Password must be at least 4 characters", 0, <<>>)
            /\ UNCHANGED pending
       ELSE IF FindUser(u) # {}
       THEN /\ resp' = Response(c, "POST /api/register", 400,
                                "Username already taken", 0, <<>>)
            /\ UNCHANGED pending
       ELSE /\ pending' = [pending EXCEPT ![c] =
                  [kind |-> "register", username |-> u, password |-> p, user |-> NoUser]]
            /\ UNCHANGED resp
    /\ UNCHANGED <<store, sessions, now, posted, calc>>

\* POST /api/register from the INSERT on: the UNIQUE constraint on username
\* throws when another registration inserted the name meanwhile
RegisterFinish(c) ==
    /\ pending[c].kind = "register"
    /\ pending' = [pending EXCEPT ![c] = NoPending]
    /\ LET u == pending[c].username
           id == seq.users + 1
       IN IF FindUser(u) # {}
          THEN /\ resp' = Response(c, "POST /api/register", 500,
                                   "UNIQUE constraint failed: users.username", 0, <<>>)
               /\ UNCHANGED <<users, seq, sessions>>
          ELSE /\ users' = users \cup
                     {[id |-> id, username |-> u,
                       password |-> BcryptHash(pending[c].password)]}
               /\ seq' = [seq EXCEPT !.users = id]
               /\ sessions' = [sessions EXCEPT ![c] = [userId |-> id, username |-> u]]
               /\ resp' = UserResponse(c, "POST /api/register", id, u)
    /\ UNCHANGED <<weeks, time_entries, autosave, now, posted, calc>>

\* mutant: an unknown username gets an answer of its own
LoginStartNamesUnknownUser(c, u, p) ==
    /\ pending[c].kind = "none"
    /\ IF u = "" \/ p = <<>>
       THEN /\ resp' = Response(c, "POST /api/login", 400,
                                "Username and password required", 0, <<>>)
            /\ UNCHANGED pending
       ELSE IF FindUser(u) = {}
       THEN /\ resp' = Response(c, "POST /api/login", 404,
                                "Unknown username", 0, <<>>)
            /\ UNCHANGED pending
       ELSE /\ pending' = [pending EXCEPT ![c] =
                  [kind |-> "login", username |-> u, password |-> p,
                   user |-> CHOOSE r \in FindUser(u) : TRUE]]
            /\ UNCHANGED resp
    /\ UNCHANGED <<store, sessions, now, posted, calc>>

\* POST /api/login up to the await of bcrypt.compare
LoginStart(c, u, p) ==
    /\ pending[c].kind = "none"
    /\ IF u = "" \/ p = <<>>
       THEN /\ resp' = Response(c, "POST /api/login", 400,
                                "Username and password required", 0, <<>>)
            /\ UNCHANGED pending
       ELSE IF FindUser(u) = {}
       THEN /\ resp' = Response(c, "POST /api/login", 401,
                                "Invalid username or password", 0, <<>>)
            /\ UNCHANGED pending
       ELSE /\ pending' = [pending EXCEPT ![c] =
                  [kind |-> "login", username |-> u, password |-> p,
                   user |-> CHOOSE r \in FindUser(u) : TRUE]]
            /\ UNCHANGED resp
    /\ UNCHANGED <<store, sessions, now, posted, calc>>

\* mutant: a successful login that sets req.session.userId only
LoginFinishUserIdOnly(c) ==
    /\ pending[c].kind = "login"
    /\ pending' = [pending EXCEPT ![c] = NoPending]
    /\ LET user == pending[c].user
       IN IF ~BcryptCompare(pending[c].password, user.password)
          THEN /\ resp' = Response(c, "POST /api/login", 401,
                                   "Invalid username or password", 0, <<>>)
               /\ UNCHANGED sessions
          ELSE /\ sessions' = [sessions EXCEPT ![c].userId = user.id]
               /\ resp' = UserResponse(c, "POST /api/login", user.id, user.username)
    /\ UNCHANGED <<store, now, posted, calc>>

\* mutant: a wrong password also ends the session
LoginFinishFailureLogsOut(c) ==
    /\ pending[c].kind = "login"
    /\ pending' = [pending EXCEPT ![c] = NoPending]
    /\ LET user == pending[c].user
       IN IF ~BcryptCompare(pending[c].password, user.password)
          THEN /\ resp' = Response(c, "POST /api/login", 401,
                                   "Invalid username or password", 0, <<>>)
               /\ sessions' = [sessions EXCEPT ![c] = NoSession]
          ELSE /\ sessions' = [sessions EXCEPT ![c] =
                     [userId |-> user.id, username |-> user.username]]
               /\ resp' = UserResponse(c, "POST /api/login", user.id, user.username)
    /\ UNCHANGED <<store, now, posted, calc>>

\* POST /api/login from the result of bcrypt.compare on
LoginFinish(c) ==
    /\ pending[c].kind = "login"
    /\ pending' = [pending EXCEPT ![c] = NoPending]
    /\ LET user == pending[c].user
       IN IF ~BcryptCompare(pending[c].password, user.password)
          THEN /\ resp' = Response(c, "POST /api/login", 401,
                                   "Invalid username or password", 0, <<>>)
               /\ UNCHANGED sessions
          ELSE /\ sessions' = [sessions EXCEPT ![c] =
                     [userId |-> user.id, username |-> user.username]]
               /\ resp' = UserResponse(c, "POST /api/login", user.id, user.username)
    /\ UNCHANGED <<store, now, posted, calc>>

\* POST /api/logout: req.session.destroy()
Logout(c) ==
    /\ sessions' = [sessions EXCEPT ![c] = NoSession]
    /\ resp' = Response(c, "POST /api/logout", 200, "", 0, <<>>)
    /\ UNCHANGED <<store, pending, now, posted, calc>>

\* GET /api/me
Me(c) ==
    /\ resp' = IF Authenticated(c)
               THEN UserResponse(c, "GET /api/me", sessions[c].userId,
                                 sessions[c].username)
               ELSE Response(c, "GET /api/me", 200, "", 0, <<>>)
    /\ UNCHANGED <<store, sessions, pending, now, posted, calc>>

\* the session cookie's maxAge (7 days) has passed: the session is gone
SessionExpire(c) ==
    /\ Authenticated(c)
    /\ sessions' = [sessions EXCEPT ![c] = NoSession]
    /\ UNCHANGED <<store, pending, now, resp, posted, calc>>

\* requireAuth's else branch, for any protected route
Unauthorized(c, route) == Response(c, route, 401, "Please log in", 0, <<>>)

\* ------------------------------------------------------- request bodies
\* one element of data.times: null, or an object with four optional fields
TimeEntry(in1, out1, in2, out2) ==
    [isNull |-> FALSE, in1 |-> in1, out1 |-> out1, in2 |-> in2, out2 |-> out2]
NullEntry ==
    [isNull |-> TRUE, in1 |-> Undefined, out1 |-> Undefined,
     in2 |-> Undefined, out2 |-> Undefined]

ClockIns == <<"06:00", "07:00", "08:00", "09:00", "10:00", "11:00", "12:00", "13:00">>

\* day i of a timesheet: style 1 sends null for an unused shift, style 2 sends
\* what an empty form field gives ("" or no property at all)
DayEntry(i, style) ==
    IF style = 1
    THEN TimeEntry(ClockIns[i + 1], "17:00", Null, Null)
    ELSE TimeEntry(ClockIns[i + 1], "18:30", "", Undefined)

\* data.times / times of a body: missing, not an array, or an array
TimesArray(items) == [kind |-> "array", items |-> items]
TimesMissing == [kind |-> "undefined", items |-> <<>>]
TimesString == [kind |-> "string", items |-> <<>>]
Timesheet(n, style) == TimesArray([i \in 1..n |-> DayEntry(i - 1, style)])
TimesWithNull(n, k) ==
    TimesArray([i \in 1..n |-> IF i = k THEN NullEntry ELSE DayEntry(i - 1, 1)])

WeekBody(label, hasData, cfg, times) ==
    [label |-> label, hasData |-> hasData, startDate |-> cfg[1],
     hourlyRate |-> cfg[2], overtimeMultiplier |-> cfg[3], times |-> times]

\* pay configurations (the multiplier in tenths: 15 is 1.5)
Config1 == <<"2024-01-01", 45, 15>>
Config2 == <<"2024-01-08", 50, 20>>

GoodWeek1 == WeekBody("W1", TRUE, Config1, Timesheet(DaysPerWeek, 1))
GoodWeek2 == WeekBody("W2", TRUE, Config2, Timesheet(DaysPerWeek, 2))
NoLabelWeek == WeekBody(Undefined, TRUE, Config1, Timesheet(DaysPerWeek, 1))
NoDataWeek == WeekBody("W1", FALSE, Config1, TimesMissing)
NoTimesWeek == WeekBody("W1", TRUE, Config1, TimesMissing)
StringTimesWeek == WeekBody("W1", TRUE, Config1, TimesString)
NullDayWeek == WeekBody("W1", TRUE, Config1, TimesWithNull(DaysPerWeek, 4))
LongWeek == WeekBody("W1", TRUE, Config2, Timesheet(DaysPerWeek + 1, 1))
ShortWeek == WeekBody("W2", TRUE, Config1, Timesheet(2, 2))

WellFormedWeeks == {GoodWeek1, GoodWeek2}
MalformedWeeks == {NoLabelWeek, NoDataWeek, NoTimesWeek, StringTimesWeek, NullDayWeek}
WeekBodies == WellFormedWeeks \cup MalformedWeeks \cup {LongWeek, ShortWeek}

\* ------------------------------------------------------------ weeks routes
\* data.times.forEach stops at the first element whose property read throws
RECURSIVE InsertedPrefix(_)
InsertedPrefix(items) ==
    IF items = <<>> \/ Head(items).isNull THEN <<>>
    ELSE <<Head(items)>> \o InsertedPrefix(Tail(items))

\* mutant: the element's position counted from one
DayIndexFromOne(i) == i

\* the day_index the forEach callback gives to element number i (1-based here)
DayIndexOf(i) == i - 1

\* the rows the forEach loop inserts for week weekId, ids following lastId
EntryRows(weekId, lastId, items) ==
    {[id |-> lastId + i, week_id |-> weekId, day_index |-> DayIndexOf(i),
      in1 |-> OrNull(items[i].in1), out1 |-> OrNull(items[i].out1),
      in2 |-> OrNull(items[i].in2), out2 |-> OrNull(items[i].out2)] : i \in 1..Len(items)}

\* POST /api/weeks
PostWeeks(c, b) ==
    /\ IF ~Authenticated(c)
       THEN /\ resp' = Unauthorized(c, "POST /api/weeks")
            /\ UNCHANGED <<store, posted>>
       ELSE IF ~b.hasData
       THEN \* data.startDate throws a TypeError before the first statement runs
            /\ resp' = Response(c, "POST /api/weeks", 500,
                                "Cannot read properties of undefined", 0, <<>>)
            /\ UNCHANGED <<store, posted>>
       ELSE IF Bind(b.label) = Null
       THEN /\ resp' = Response(c, "POST /api/weeks", 500,
                                "NOT NULL constraint failed: weeks.label", 0, <<>>)
            /\ UNCHANGED <<store, posted>>
       ELSE LET weekId == seq.weeks + 1
                done == InsertedPrefix(b.times.items)
                rows == EntryRows(weekId, seq.time_entries, done)
            IN /\ seq.weeks < MaxWeeks
               /\ weeks' = weeks \cup
                     {[id |-> weekId, user_id |-> sessions[c].userId,
                       label |-> b.label, start_date |-> b.startDate,
                       hourly_rate |-> b.hourlyRate,
                       overtime_multiplier |-> b.overtimeMultiplier,
                       created_at |-> now]}
               /\ time_entries' = time_entries \cup rows
               /\ seq' = [seq EXCEPT !.weeks = weekId,
                                     !.time_entries = @ + Len(done)]
               /\ resp' = IF b.times.kind # "array"
                          THEN Response(c, "POST /api/weeks", 500,
                                        "data.times.forEach is not a function", 0, <<>>)
                          ELSE IF Len(done) < Len(b.times.items)
                          THEN Response(c, "POST /api/weeks", 500,
                                        "Cannot read properties of null", 0, <<>>)
                          ELSE Response(c, "POST /api/weeks", 200, "", weekId, <<>>)
               /\ posted' = Append(posted, b)
               /\ UNCHANGED <<users, autosave>>
    /\ UNCHANGED <<sessions, pending, now, calc>>

\* the rows of a table in rowid order, the order a table scan yields them
RECURSIVE ByRowId(_)
ByRowId(rows) ==
    IF rows = {} THEN <<>>
    ELSE LET first == CHOOSE r \in rows : \A o \in rows : r.id <= o.id
         IN <<first>> \o ByRowId(rows \ {first})

\* Array.prototype.sort((a, b) => a.day_index - b.day_index): a stable sort
RECURSIVE InsertByDayIndex(_, _)
InsertByDayIndex(sorted, e) ==
    IF sorted = <<>> THEN <<e>>
    ELSE IF sorted[Len(sorted)].day_index <= e.day_index THEN Append(sorted, e)
    ELSE Append(InsertByDayIndex(SubSeq(sorted, 1, Len(sorted) - 1), e),
                sorted[Len(sorted)])
RECURSIVE SortByDayIndex(_)
SortByDayIndex(s) ==
    IF s = <<>> THEN <<>>
    ELSE InsertByDayIndex(SortByDayIndex(SubSeq(s, 1, Len(s) - 1)), s[Len(s)])

\* json_group_array(json_object(...)) over the week's time_entries, in table order
TimesJson(weekId) ==
    LET rows == ByRowId({t \in time_entries : t.week_id = weekId})
    IN [i \in 1..Len(rows) |->
          [day_index |-> rows[i].day_index, in1 |-> rows[i].in1, out1 |-> rows[i].out1,
           in2 |-> rows[i].in2, out2 |-> rows[i].out2]]

\* weeks.map(w => ({...})) for one row
FormatWeek(w) ==
    [id |-> w.id, label |-> w.label, savedAt |-> w.created_at,
     startDate |-> w.start_date, hourlyRate |-> w.hourly_rate,
     overtimeMultiplier |-> w.overtime_multiplier,
     times |-> SortByDayIndex(TimesJson(w.id))]

\* mutant: the listing query without its WHERE clause
WeeksOfAnyUser(userId) == weeks

\* WHERE w.user_id = ?
WeeksOf(userId) == {w \in weeks : w.user_id = userId}

\* the orders ORDER BY w.created_at DESC allows: rows of one second in any order
ListOrders(rows) ==
    {s \in [1..Cardinality(rows) -> rows] :
        /\ \A i, j \in DOMAIN s : i # j => s[i] # s[j]
        /\ \A i, j \in DOMAIN s : i < j => s[i].created_at >= s[j].created_at}

\* GET /api/weeks
GetWeeks(c) ==
    /\ IF ~Authenticated(c)
       THEN resp' = Unauthorized(c, "GET /api/weeks")
       ELSE \E s \in ListOrders(WeeksOf(sessions[c].userId)) :
               resp' = Response(c, "GET /api/weeks", 200, "", 0,
                                [i \in DOMAIN s |-> FormatWeek(s[i])])
    /\ UNCHANGED <<store, sessions, pending, now, posted, calc>>

\* mutant: the handler without the comparison of week.user_id
DeleteWeekOfAnyUser(c, id) ==
    /\ IF ~Authenticated(c)
       THEN /\ resp' = Unauthorized(c, "DELETE /api/weeks/:id")
            /\ UNCHANGED store
       ELSE IF {w \in weeks : w.id = id} = {}
       THEN /\ resp' = Response(c, "DELETE /api/weeks/:id", 403,
                                "Not authorized", id, <<>>)
            /\ UNCHANGED store
       ELSE /\ time_entries' = {t \in time_entries : t.week_id # id}
            /\ weeks' = {w \in weeks : w.id # id}
            /\ resp' = Response(c, "DELETE /api/weeks/:id", 200, "", id, <<>>)
            /\ UNCHANGED <<users, autosave, seq>>
    /\ UNCHANGED <<sessions, pending, now, posted, calc>>

\* mutant: the handler without the DELETE FROM time_entries statement
DeleteWeekRowOnly(c, id) ==
    /\ IF ~Authenticated(c)
       THEN /\ resp' = Unauthorized(c, "DELETE /api/weeks/:id")
            /\ UNCHANGED store
       ELSE LET week == {w \in weeks : w.id = id}
            IN IF week = {} \/ \E w \in week : w.user_id # sessions[c].userId
               THEN /\ resp' = Response(c, "DELETE /api/weeks/:id", 403,
                                        "Not authorized", id, <<>>)
                    /\ UNCHANGED store
               ELSE /\ weeks' = {w \in weeks : w.id # id}
                    /\ resp' = Response(c, "DELETE /api/weeks/:id", 200, "", id, <<>>)
                    /\ UNCHANGED <<users, autosave, seq, time_entries>>
    /\ UNCHANGED <<sessions, pending, now, posted, calc>>

\* DELETE /api/weeks/:id
DeleteWeek(c, id) ==
    /\ IF ~Authenticated(c)
       THEN /\ resp' = Unauthorized(c, "DELETE /api/weeks/:id")
            /\ UNCHANGED store
       ELSE LET week == {w \in weeks : w.id = id}
            IN IF week = {} \/ \E w \in week : w.user_id # sessions[c].userId
               THEN /\ resp' = Response(c, "DELETE /api/weeks/:id", 403,
                                        "Not authorized", id, <<>>)
                    /\ UNCHANGED store
               ELSE /\ time_entries' = {t \in time_entries : t.week_id # id}
                    /\ weeks' = {w \in weeks : w.id # id}
                    /\ resp' = Response(c, "DELETE /api/weeks/:id", 200, "", id, <<>>)
                    /\ UNCHANGED <<users, autosave, seq>>
    /\ UNCHANGED <<sessions, pending, now, posted, calc>>

\* --------------------------------------------------------- autosave routes
AutosaveBody(label, cfg, times) ==
    [weekLabel |-> label, startDate |-> cfg[1], hourlyRate |-> cfg[2],
     overtimeMultiplier |-> cfg[3], times |-> times]

Draft1 == AutosaveBody("W1", Config1, Timesheet(DaysPerWeek, 1))
Draft2 == AutosaveBody("W2", Config2, Timesheet(DaysPerWeek, 2))
StringTimesDraft == AutosaveBody("W1", Config1, TimesString)
NullDayDraft == AutosaveBody("W2", Config1, TimesWithNull(DaysPerWeek, 4))

WellFormedDrafts == {Draft1, Draft2}
MalformedDrafts == {StringTimesDraft, NullDayDraft}
AutosaveBodies == WellFormedDrafts \cup MalformedDrafts

\* JSON.stringify / JSON.parse of a value that is present: the column holds text
JsonStringify(v) == [text |-> "json", value |-> v]
JsonParse(t) == t.value

\* mutant: the SELECT without WHERE user_id = ?
AutosaveOfAnyUser(userId) == autosave

AutosaveOf(userId) == {r \in autosave : r.user_id = userId}

\* GET /api/autosave
GetAutosave(c) ==
    /\ IF ~Authenticated(c)
       THEN resp' = Unauthorized(c, "GET /api/autosave")
       ELSE LET rows == AutosaveOf(sessions[c].userId)
            IN IF rows # {}
               THEN LET row == CHOOSE r \in rows : \A o \in rows : r.id <= o.id
                    IN resp' = Response(c, "GET /api/autosave", 200, "", 0,
                                  <<[weekLabel |-> row.label, startDate |-> row.start_date,
                                     hourlyRate |-> row.hourly_rate,
                                     overtimeMultiplier |-> row.overtime_multiplier,
                                     times |-> JsonParse(row.times)]>>)
               ELSE resp' = Response(c, "GET /api/autosave", 200, "", 0, <<>>)
    /\ UNCHANGED <<store, sessions, pending, now, posted, calc>>

\* mutant: the handler without the lookup of an existing row, always INSERT
PostAutosaveAlwaysInsert(c, b) ==
    /\ IF ~Authenticated(c)
       THEN /\ resp' = Unauthorized(c, "POST /api/autosave")
            /\ UNCHANGED store
       ELSE /\ seq.autosave < MaxAutosaves
            /\ autosave' = autosave \cup
                  {[id |-> seq.autosave + 1, user_id |-> sessions[c].userId,
                    label |-> b.weekLabel, start_date |-> b.startDate,
                    hourly_rate |-> b.hourlyRate,
                    overtime_multiplier |-> b.overtimeMultiplier,
                    times |-> JsonStringify(b.times)]}
            /\ seq' = [seq EXCEPT !.autosave = @ + 1]
            /\ resp' = Response(c, "POST /api/autosave", 200, "", 0, <<>>)
            /\ UNCHANGED <<users, weeks, time_entries>>
    /\ UNCHANGED <<sessions, pending, now, posted, calc>>

\* POST /api/autosave
PostAutosave(c, b) ==
    /\ IF ~Authenticated(c)
       THEN /\ resp' = Unauthorized(c, "POST /api/autosave")
            /\ UNCHANGED store
       ELSE LET userId == sessions[c].userId
                existing == AutosaveOf(userId)
                fields(id) ==
                    [id |-> id, user_id |-> userId, label |-> b.weekLabel,
                     start_date |-> b.startDate, hourly_rate |-> b.hourlyRate,
                     overtime_multiplier |-> b.overtimeMultiplier,
                     times |-> JsonStringify(b.times)]
            IN /\ IF existing # {}
                  THEN /\ autosave' = {IF r \in existing THEN fields(r.id) ELSE r :
                                          r \in autosave}
                       /\ UNCHANGED seq
                  ELSE /\ seq.autosave < MaxAutosaves
                       /\ autosave' = autosave \cup {fields(seq.autosave + 1)}
                       /\ seq' = [seq EXCEPT !.autosave = @ + 1]
               /\ resp' = Response(c, "POST /api/autosave", 200, "", 0, <<>>)
               /\ UNCHANGED <<users, weeks, time_entries>>
    /\ UNCHANGED <<sessions, pending, now, posted, calc>>

\* DELETE /api/autosave
DeleteAutosave(c) ==
    /\ IF ~Authenticated(c)
       THEN /\ resp' = Unauthorized(c, "DELETE /api/autosave")
            /\ UNCHANGED store
       ELSE /\ autosave' = autosave \ AutosaveOf(sessions[c].userId)
            /\ resp' = Response(c, "DELETE /api/autosave", 200, "", 0, <<>>)
            /\ UNCHANGED <<users, weeks, time_entries, seq>>
    /\ UNCHANGED <<sessions, pending, now, posted, calc>>

\* a second of wall-clock time passes
Tick ==
    /\ now < MaxClock
    /\ now' = now + 1
    /\ UNCHANGED <<store, sessions, pending, resp, posted, calc>>

\* ---------------------------------------------------------- specifications
\* ids a DELETE /api/weeks/:id may name: every id ever given, and one never given
WeekIds == 1..(MaxWeeks + 1)

\* the auth routes, for clients C on usernames U and passwords P
AuthNext(C, U, P) ==
    \/ \E c \in C, u \in U, p \in P : RegisterStart(c, u, p)
    \/ \E c \in C : RegisterFinish(c)
    \/ \E c \in C, u \in U, p \in P : LoginStart(c, u, p)
    \/ \E c \in C : LoginFinish(c)
    \/ \E c \in C : Logout(c)

\* the session routes that change no table
SessionNext(C) ==
    \/ \E c \in C : Me(c)
    \/ \E c \in C : SessionExpire(c)

\* the weeks routes, on request bodies B
WeeksNext(C, B) ==
    \/ \E c \in C, b \in B : PostWeeks(c, b)
    \/ \E c \in C : GetWeeks(c)
    \/ \E c \in C, id \in WeekIds : DeleteWeek(c, id)

\* the autosave routes, on request bodies B
AutosaveNext(C, B) ==
    \/ \E c \in C : GetAutosave(c)
    \/ \E c \in C, b \in B : PostAutosave(c, b)
    \/ \E c \in C : DeleteAutosave(c)

ValidUsernames == Usernames \ {""}
ValidPasswords == {p \in Passwords : Len(p) >= MinPasswordLen}

\* every route, every input
Next ==
    \/ AuthNext(Clients, Usernames, Passwords)
    \/ SessionNext(Clients)
    \/ WeeksNext(Clients, WeekBodies)
    \/ AutosaveNext(Clients, AutosaveBodies)
    \/ Tick

Spec == Init /\ [][Next]_vars

\* two tenants saving, listing and deleting weeks
NextTenants ==
    \/ AuthNext(Clients, ValidUsernames, ValidPasswords)
    \/ WeeksNext(Clients, {GoodWeek1})

SpecTenants == Init /\ [][NextTenants]_vars

\* one client and one user sending every request body, well-formed or not
NextBodies ==
    \/ AuthNext({"c1"}, {"alice"}, ValidPasswords)
    \/ WeeksNext({"c1"}, WeekBodies)
    \/ AutosaveNext({"c1"}, MalformedDrafts)

SpecBodies == Init /\ [][NextBodies]_vars

\* one client, two users, saving timesheets of every length and listing them
NextRoundTrip ==
    \/ AuthNext({"c1"}, ValidUsernames, ValidPasswords)
    \/ WeeksNext({"c1"}, {GoodWeek1, GoodWeek2, ShortWeek, LongWeek})

SpecRoundTrip == Init /\ [][NextRoundTrip]_vars

\* registration and login on every username and password, no table but users
NextAuth ==
    \/ AuthNext(Clients, Usernames, Passwords)
    \/ SessionNext(Clients)

SpecAuth == Init /\ [][NextAuth]_vars

\* the session gate in front of every protected route
NextGate ==
    \/ AuthNext(Clients, {"alice"}, ValidPasswords)
    \/ SessionNext(Clients)
    \/ WeeksNext(Clients, {GoodWeek1})
    \/ AutosaveNext(Clients, {Draft1})

SpecGate == Init /\ [][NextGate]_vars

\* two tenants and their autosave slots
NextDrafts ==
    \/ AuthNext(Clients, ValidUsernames, ValidPasswords)
    \/ AutosaveNext(Clients, {Draft1, NullDayDraft})

SpecDrafts == Init /\ [][NextDrafts]_vars

\* ------------------------------------------------------------------ claims
IdsOf(rows) == {r.id : r \in rows}
EntriesOfWeek(id) == {t \in time_entries : t.week_id = id}

\* C1: GET /api/weeks of a session authenticated as U answers 200 with exactly
\* the weeks whose user_id is U, each once; DELETE /api/weeks/:id by U of a week
\* owned by another user answers 403 and leaves the week and its entries stored.
C1_TenantIsolation ==
    [][\A c \in Clients :
          /\ (GetWeeks(c) /\ sessions[c].userId # 0) =>
                /\ resp'.status = 200
                /\ {resp'.body[i].id : i \in DOMAIN resp'.body}
                      = IdsOf({w \in weeks : w.user_id = sessions[c].userId})
                /\ \A i, j \in DOMAIN resp'.body :
                      resp'.body[i].id = resp'.body[j].id => i = j
          /\ \A id \in WeekIds :
                (/\ DeleteWeek(c, id)
                 /\ sessions[c].userId # 0
                 /\ \E w \in weeks : w.id = id /\ w.user_id # sessions[c].userId) =>
                   /\ resp'.status = 403
                   /\ weeks' = weeks
                   /\ time_entries' = time_entries
      ]_vars

\* C1 witness: a logged-in user was refused (403) the deletion of a stored week
\* of another user, and that week still has its seven entries.
C1_Witness ==
    /\ resp.route = "DELETE /api/weeks/:id"
    /\ resp.status = 403
    /\ sessions[resp.client].userId # 0
    /\ \E w \in weeks :
          /\ w.id = resp.id
          /\ w.user_id # sessions[resp.client].userId
          /\ Cardinality(EntriesOfWeek(w.id)) = DaysPerWeek

\* C4: no time entry references a week that is not stored; a DELETE by the
\* owner answers 200 and removes the week and every entry of it; a DELETE of an
\* id that was given out and is no longer stored, by any client, answers 403
\* (401 to a client that is not logged in) and changes no table, and such an
\* id never comes back.
C4_DeleteThenDeleteAgain ==
    [][/\ \A t \in time_entries' : t.week_id \in IdsOf(weeks')
       /\ \A c \in Clients, id \in WeekIds :
             /\ (/\ DeleteWeek(c, id)
                 /\ sessions[c].userId # 0
                 /\ \E w \in weeks : w.id = id /\ w.user_id = sessions[c].userId) =>
                   /\ resp'.status = 200
                   /\ id \notin IdsOf(weeks')
                   /\ \A t \in time_entries' : t.week_id # id
             /\ (/\ DeleteWeek(c, id)
                 /\ id <= seq.weeks
                 /\ id \notin IdsOf(weeks)) =>
                   /\ resp'.status = IF sessions[c].userId = 0 THEN 401 ELSE 403
                   /\ UNCHANGED store
       /\ \A id \in WeekIds :
             (id <= seq.weeks /\ id \notin IdsOf(weeks)) => id \notin IdsOf(weeks')
      ]_vars

\* C4 witness: a week was created and deleted, and a later DELETE of its id by a
\* logged-in user was answered 403.
C4_Witness ==
    /\ resp.route = "DELETE /api/weeks/:id"
    /\ resp.status = 403
    /\ sessions[resp.client].userId # 0
    /\ resp.id <= seq.weeks
    /\ resp.id \notin IdsOf(weeks)
    /\ EntriesOfWeek(resp.id) = {}
    /\ seq.time_entries >= DaysPerWeek

\* C2: every POST /api/weeks of a logged-in user either stores the new week
\* with one entry per element of the request's times, or changes neither weeks
\* nor time_entries; a request answered with an error changes neither.
C2_AtomicCreate ==
    [][\A c \in Clients, b \in WeekBodies :
          (PostWeeks(c, b) /\ sessions[c].userId # 0) =>
             /\ \/ /\ (seq.weeks + 1) \in IdsOf(weeks')
                   /\ b.times.kind = "array"
                   /\ Cardinality({t \in time_entries' : t.week_id = seq.weeks + 1})
                         = Len(b.times.items)
                \/ /\ weeks' = weeks
                   /\ time_entries' = time_entries
             /\ resp'.status # 200 => (weeks' = weeks /\ time_entries' = time_entries)
      ]_vars

\* the value the round trip returns for an input field: an empty string or a
\* missing property comes back as null
Returned(v) == IF v = "" \/ v = Undefined THEN Null ELSE v

\* a week of the listing carries the label and configuration of request body b
\* and seven entries, day_index 0..6 in order, field values related to the
\* input's by same(_, _)
RoundTrips(listed, b, same(_, _)) ==
    /\ listed.label = b.label
    /\ listed.startDate = b.startDate
    /\ listed.hourlyRate = b.hourlyRate
    /\ listed.overtimeMultiplier = b.overtimeMultiplier
    /\ Len(listed.times) = DaysPerWeek
    /\ \A k \in 1..DaysPerWeek :
          /\ listed.times[k].day_index = k - 1
          /\ same(listed.times[k].in1, b.times.items[k].in1)
          /\ same(listed.times[k].out1, b.times.items[k].out1)
          /\ same(listed.times[k].in2, b.times.items[k].in2)
          /\ same(listed.times[k].out2, b.times.items[k].out2)

\* the stored weeks of user userId that a request with seven entries created
SavedWithSevenDays(userId) ==
    {w \in weeks : /\ w.user_id = userId
                   /\ posted[w.id].times.kind = "array"
                   /\ Len(posted[w.id].times.items) = DaysPerWeek
                   /\ \A k \in 1..DaysPerWeek : ~posted[w.id].times.items[k].isNull}

Identical(out, in) == out = in
NormalisedToNull(out, in) == out = Returned(in)

\* C3 as stated: every GET /api/weeks lists each stored week its user saved with
\* seven entries, with the saved label and configuration and with seven times,
\* day_index 0..6 in order, whose field values are identical to the input's.
C3_RoundTripIdentical ==
    [][\A c \in Clients :
          (GetWeeks(c) /\ sessions[c].userId # 0) =>
             \A w \in SavedWithSevenDays(sessions[c].userId) :
                \E i \in DOMAIN resp'.body :
                   /\ resp'.body[i].id = w.id
                   /\ RoundTrips(resp'.body[i], posted[w.id], Identical)
      ]_vars

\* C3 as amended: the same, with the field values those of the input except
\* that an empty string or a missing value is returned as null.
C3_RoundTrip ==
    [][\A c \in Clients :
          (GetWeeks(c) /\ sessions[c].userId # 0) =>
             \A w \in SavedWithSevenDays(sessions[c].userId) :
                \E i \in DOMAIN resp'.body :
                   /\ resp'.body[i].id = w.id
                   /\ RoundTrips(resp'.body[i], posted[w.id], NormalisedToNull)
      ]_vars

\* C3 witness: a listing holds two weeks of its user, one saved with null for
\* the unused shift and one saved with empty strings and missing fields.
C3_Witness ==
    /\ resp.route = "GET /api/weeks"
    /\ resp.status = 200
    /\ \E i, j \in DOMAIN resp.body :
          /\ resp.body[i].id \in IdsOf(weeks)
          /\ resp.body[j].id \in IdsOf(weeks)
          /\ posted[resp.body[i].id] = GoodWeek1
          /\ posted[resp.body[j].id] = GoodWeek2
          /\ Len(resp.body[j].times) = DaysPerWeek
          /\ resp.body[j].times[1].in2 = Null

\* C8: the day_index values of a stored week's entries are pairwise distinct
\* and lie in 0..6, and a listing returns each week's times in increasing
\* day_index order.
C8_DayIndex ==
    /\ \A t \in time_entries : t.day_index \in 0..(DaysPerWeek - 1)
    /\ \A t, o \in time_entries :
          (t.week_id = o.week_id /\ t.day_index = o.day_index) => t = o
    /\ (resp.route = "GET /api/weeks" /\ resp.status = 200) =>
          \A i \in DOMAIN resp.body :
             \A k \in 1..(Len(resp.body[i].times) - 1) :
                resp.body[i].times[k].day_index < resp.body[i].times[k + 1].day_index

\* C10: a POST /api/weeks or POST /api/autosave of a logged-in user with a
\* malformed body is answered 400 and changes no table, and a request answered
\* 500 changes no table.
C10_ValidationBeforeStorage ==
    [][\A c \in Clients :
          /\ \A b \in MalformedWeeks :
                (PostWeeks(c, b) /\ sessions[c].userId # 0) =>
                   (resp'.status = 400 /\ UNCHANGED store)
          /\ \A b \in MalformedDrafts :
                (PostAutosave(c, b) /\ sessions[c].userId # 0) =>
                   (resp'.status = 400 /\ UNCHANGED store)
          /\ \A b \in WeekBodies :
                (PostWeeks(c, b) /\ resp'.status = 500) => UNCHANGED store
      ]_vars

\* a step is client c's request to one of the six protected routes
ProtectedRequest(c) ==
    \/ \E b \in WeekBodies : PostWeeks(c, b)
    \/ GetWeeks(c)
    \/ \E id \in WeekIds : DeleteWeek(c, id)
    \/ GetAutosave(c)
    \/ \E b \in AutosaveBodies : PostAutosave(c, b)
    \/ DeleteAutosave(c)

\* what C5 says of every step but the end of the Authenticated state
GateAndLogin(c) ==
    /\ (sessions[c].userId = 0 /\ sessions'[c].userId # 0) =>
          /\ RegisterFinish(c) \/ LoginFinish(c)
          /\ resp'.status = 200
    /\ ((RegisterFinish(c) \/ LoginFinish(c)) /\ resp'.status = 200) =>
          sessions'[c].userId # 0
    /\ Logout(c) => sessions'[c].userId = 0
    /\ (sessions[c].userId = 0 /\ ProtectedRequest(c)) =>
          (resp'.status = 401 /\ UNCHANGED store)

\* C5 as stated: a session becomes Authenticated only by a successful register
\* or login, stays Authenticated until a logout, is Anonymous after a logout,
\* and every protected request of an Anonymous session is answered 401 and
\* changes no table.
C5_SessionUntilLogout ==
    [][\A c \in Clients :
          /\ GateAndLogin(c)
          /\ (sessions[c].userId # 0 /\ sessions'[c].userId = 0) => Logout(c)
      ]_vars

\* C5 as amended: the same, with the Authenticated state ending at a logout or
\* at the expiry of the session (7 days).
C5_SessionGate ==
    [][\A c \in Clients :
          /\ GateAndLogin(c)
          /\ (sessions[c].userId # 0 /\ sessions'[c].userId = 0) =>
                (Logout(c) \/ SessionExpire(c))
      ]_vars

\* C5 witness: a user exists and has a saved week and an autosave row, no
\* client is logged in any more, and the last request, a write to a protected
\* route, was answered 401.
C5_Witness ==
    /\ users # {} /\ weeks # {} /\ autosave # {}
    /\ \A c \in Clients : sessions[c].userId = 0
    /\ resp.status = 401
    /\ resp.route \in {"POST /api/weeks", "DELETE /api/weeks/:id",
                       "POST /api/autosave", "DELETE /api/autosave"}

\* C6: a registration whose username is taken or whose password is shorter
\* than 4 is answered 400, creates no user and leaves the sessions alone, also
\* when the name was taken while the request waited for the hash; usernames
\* are unique.
C6_RegistrationValidation ==
    [][/\ \A r, o \in users' : r.username = o.username => r = o
       /\ \A c \in Clients :
             /\ \A u \in Usernames, p \in Passwords :
                   (/\ RegisterStart(c, u, p)
                    /\ FindUser(u) # {} \/ Len(p) < MinPasswordLen) =>
                      (resp'.status = 400 /\ users' = users /\ sessions' = sessions
                          /\ pending' = pending)
             /\ (RegisterFinish(c) /\ FindUser(pending[c].username) # {}) =>
                   (resp'.status = 400 /\ users' = users /\ sessions' = sessions)
      ]_vars

\* the one answer to a login that fails on its credentials
InvalidCredentials(c) ==
    [client |-> c, route |-> "POST /api/login", status |-> 401,
     error |-> "Invalid username or password", id |-> 0, username |-> "",
     body |-> <<>>]

\* C9: a login with non-empty username and password for a username that is
\* not registered, and one for a registered username with a wrong password,
\* get the same response (401, same message) and leave the sessions as they
\* were.
C9_NoUsernameEnumeration ==
    [][\A c \in Clients :
          /\ \A u \in Usernames, p \in Passwords :
                (/\ LoginStart(c, u, p)
                 /\ u # "" /\ p # <<>>
                 /\ \A r \in users : r.username # u) =>
                   (resp' = InvalidCredentials(c) /\ sessions' = sessions
                       /\ pending' = pending)
          /\ (/\ LoginFinish(c)
              /\ pending[c].user.password # BcryptHash(pending[c].password)) =>
                (resp' = InvalidCredentials(c) /\ sessions' = sessions)
      ]_vars

\* C9 witness: every non-empty username is registered, so the 401 just given
\* to a login answers a wrong password for an existing user.
C9_Witness ==
    /\ resp.route = "POST /api/login"
    /\ resp.status = 401
    /\ {r.username : r \in users} = ValidUsernames

\* C7: the autosave table holds at most one row per user, and after every
\* POST /api/autosave of a logged-in user, the first or a repeated one, it
\* holds exactly one row of that user.
C7_OneAutosaveSlot ==
    [][/\ \A r, o \in autosave' : r.user_id = o.user_id => r = o
       /\ \A c \in Clients, b \in AutosaveBodies :
             (PostAutosave(c, b) /\ sessions[c].userId # 0) =>
                Cardinality({r \in autosave' : r.user_id = sessions[c].userId}) = 1
      ]_vars

\* C7 witness: two users each hold a row, one of them written by a POST that
\* found a row already there (its id is older than the other user's).
C7_Witness ==
    /\ resp.route = "POST /api/autosave"
    /\ resp.status = 200
    /\ Cardinality(autosave) = 2
    /\ \E r, o \in autosave :
          /\ r.user_id = sessions[resp.client].userId
          /\ r.id < o.id
          /\ r.label # o.label

\* ---------------------------------------------------- overtime calculator
\* The calculator runs in the client page; it is modelled from its design
\* (worked hours per day, daily and weekly overtime candidates, the larger
\* one wins).  Hours are kept in minutes and money in 1/600 of the currency
\* unit, so that every quantity is an integer.
DailyOvertimeHours == 9
WeeklyOvertimeHours == 40
MinutesPerHour == 60

\* a time of day "HH:MM" read as <<HH, MM>>; an empty field is <<>>
NoTime == <<>>
MinutesOfDay(t) == t[1] * MinutesPerHour + t[2]

\* duration of one shift; a missing pair counts as zero
Duration(in, out) ==
    IF in = NoTime \/ out = NoTime THEN 0 ELSE MinutesOfDay(out) - MinutesOfDay(in)

\* worked minutes of a day of up to two shifts
DayMinutes(e) == Duration(e.in1, e.out1) + Duration(e.in2, e.out2)

Max(a, b) == IF a >= b THEN a ELSE b

RECURSIVE Sum(_)
Sum(s) == IF s = <<>> THEN 0 ELSE Head(s) + Sum(Tail(s))

WeekMinutes(times) == Sum([i \in DOMAIN times |-> DayMinutes(times[i])])

\* daily overtime candidate of one day, and the weekly overtime candidate
DailyOvertime(e) == Max(0, DayMinutes(e) - DailyOvertimeHours * MinutesPerHour)
WeeklyOvertime(times) ==
    Max(0, WeekMinutes(times) - WeeklyOvertimeHours * MinutesPerHour)

\* mutant: both overtime methods added up
OvertimeSumOfBoth(times) ==
    Sum([i \in DOMAIN times |-> DailyOvertime(times[i])]) + WeeklyOvertime(times)

\* final overtime: the larger of the two aggregation strategies
Overtime(times) ==
    Max(Sum([i \in DOMAIN times |-> DailyOvertime(times[i])]), WeeklyOvertime(times))

RegularMinutes(times) == Max(0, WeekMinutes(times) - Overtime(times))

\* gross pay for a rate per hour and a multiplier in tenths, in 1/600 units
GrossPay(regular, overtime, rate, multiplier) ==
    regular * rate * 10 + overtime * rate * multiplier

\* the days a timesheet is filled from: off, 9 h, 10 h, and 4 h 30 + 4 h
Shift(in1, out1, in2, out2) == [in1 |-> in1, out1 |-> out1, in2 |-> in2, out2 |-> out2]
DayOff == Shift(NoTime, NoTime, NoTime, NoTime)
NineHourDay == Shift(<<8, 0>>, <<17, 0>>, NoTime, NoTime)
TenHourDay == Shift(<<8, 0>>, <<18, 0>>, NoTime, NoTime)
SplitDay == Shift(<<8, 0>>, <<12, 30>>, <<13, 0>>, <<17, 0>>)
DayShapes == {DayOff, NineHourDay, TenHourDay, SplitDay}

\* a filled form, not yet computed
Timesheets ==
    {[times |-> t, rate |-> cfg[2], multiplier |-> cfg[3], done |-> FALSE,
      total |-> 0, regular |-> 0, overtime |-> 0, gross |-> 0] :
        t \in [1..DaysPerWeek -> DayShapes], cfg \in {Config1, Config2}}

\* the page computes the totals of the form
Calculate ==
    /\ ~calc.done
    /\ calc' = [calc EXCEPT
          !.done = TRUE,
          !.total = WeekMinutes(calc.times),
          !.overtime = Overtime(calc.times),
          !.regular = RegularMinutes(calc.times),
          !.gross = GrossPay(RegularMinutes(calc.times), Overtime(calc.times),
                             calc.rate, calc.multiplier)]
    /\ UNCHANGED <<store, sessions, pending, now, resp, posted>>

\* the user clears the computed totals to compute again
Recalculate ==
    /\ calc.done
    /\ calc' = [calc EXCEPT !.done = FALSE, !.total = 0, !.overtime = 0,
                            !.regular = 0, !.gross = 0]
    /\ UNCHANGED <<store, sessions, pending, now, resp, posted>>

\* a server nobody has used yet, and a page with any filled timesheet
InitOvertime ==
    /\ users = {}
    /\ weeks = {}
    /\ time_entries = {}
    /\ autosave = {}
    /\ seq = [users |-> 0, weeks |-> 0, time_entries |-> 0, autosave |-> 0]
    /\ sessions = [c \in Clients |-> NoSession]
    /\ pending = [c \in Clients |-> NoPending]
    /\ now = 0
    /\ resp = Response("", "", 0, "", 0, <<>>)
    /\ posted = <<>>
    /\ calc \in Timesheets

NextOvertime ==
    \/ Calculate
    \/ Recalculate

SpecOvertime == InitOvertime /\ [][NextOvertime]_vars

\* the days of the form with exactly n worked minutes
DaysWith(n) == {i \in DOMAIN calc.times : DayMinutes(calc.times[i]) = n}

\* C11: the computed overtime is the larger of the sum of the daily excesses
\* over 9 hours and the weekly excess over 40 hours, never their sum: 0 when
\* no day exceeds 9 hours and the week does not exceed 40, 1 hour for a single
\* 10-hour day, 5 hours for five 9-hour days; regular is total minus overtime
\* and gross pay is regular * rate + overtime * rate * multiplier.
C11_OvertimeRule ==
    calc.done =>
       LET day(i) == DayMinutes(calc.times[i])
           over(i) == IF day(i) > 540 THEN day(i) - 540 ELSE 0
           daily == Sum([i \in DOMAIN calc.times |-> over(i)])
           worked == Sum([i \in DOMAIN calc.times |-> day(i)])
           weekly == IF worked > 2400 THEN worked - 2400 ELSE 0
       IN /\ calc.overtime = IF daily >= weekly THEN daily ELSE weekly
          /\ (daily > 0 /\ weekly > 0) => calc.overtime < daily + weekly
          /\ ((\A i \in DOMAIN calc.times : day(i) <= 540) /\ worked <= 2400) =>
                calc.overtime = 0
          /\ (Cardinality(DaysWith(600)) = 1 /\ Cardinality(DaysWith(0)) = 6) =>
                calc.overtime = 60
          /\ (Cardinality(DaysWith(540)) = 5 /\ Cardinality(DaysWith(0)) = 2) =>
                calc.overtime = 300
          /\ calc.total = worked
          /\ calc.regular = worked - calc.overtime
          /\ calc.regular >= 0
          /\ calc.gross * 10 = calc.regular * calc.rate * 100
                                 + calc.overtime * calc.rate * calc.multiplier * 10

\* C11 witness: five 9-hour days and two days off were computed; no day gives
\* daily overtime and the weekly rule gives 5 hours.
C11_Witness ==
    /\ calc.done
    /\ Cardinality(DaysWith(540)) = 5
    /\ Cardinality(DaysWith(0)) = 2
    /\ calc.overtime = 300
    /\ calc.regular = 2400

\* ------------------------------------------------- later claims' specs
\* each client has a user of its own
TwoTenants(P1, P2) ==
    \/ AuthNext({"c1"}, {"alice"}, P1)
    \/ AuthNext({"c2"}, {"bob"}, P2)

\* two tenants with weeks, one of them with an autosave slot, and the first
\* one also sending registrations and logins that fail
NextArchive ==
    \/ TwoTenants(Passwords, ValidPasswords)
    \/ WeeksNext(Clients, {GoodWeek1})
    \/ AutosaveNext({"c2"}, {Draft1})

SpecArchive == Init /\ [][NextArchive]_vars

\* C12: in every step, every stored week keeps its row (owner, label, start
\* date, rate, multiplier, creation time) and its time entries, unless the
\* step is a DELETE of that week by a client logged in as its owner.
C12_SavedWeeksImmutable ==
    [][\A w \in weeks :
          \/ /\ w \in weeks'
             /\ \A o \in weeks' : o.id = w.id => o = w
             /\ {t \in time_entries' : t.week_id = w.id}
                   = {t \in time_entries : t.week_id = w.id}
          \/ \E c \in Clients :
                /\ DeleteWeek(c, w.id)
                /\ sessions[c].userId = w.user_id
                /\ resp'.status = 200
      ]_vars

\* C12 witness: week 1 is stored with its seven entries after a second week was
\* created and deleted, an autosave row was written, and the other user was
\* just refused the deletion of week 1.
C12_Witness ==
    /\ \E w \in weeks : w.id = 1 /\ w.user_id # sessions[resp.client].userId
    /\ Cardinality(EntriesOfWeek(1)) = DaysPerWeek
    /\ seq.weeks = 2
    /\ 2 \notin IdsOf(weeks)
    /\ autosave # {}
    /\ resp.route = "DELETE /api/weeks/:id"
    /\ resp.status = 403
    /\ resp.id = 1
    /\ sessions[resp.client].userId # 0

\* two tenants with an autosave slot each, one of them also saving and
\* deleting weeks
NextReadBack ==
    \/ TwoTenants(ValidPasswords, ValidPasswords)
    \/ WeeksNext({"c1"}, {GoodWeek1})
    \/ AutosaveNext(Clients, {Draft1, Draft2})

SpecReadBack == Init /\ [][NextReadBack]_vars

\* what GET /api/autosave has to answer for user u: the stored payloads of u
ReadOf(u) ==
    {[weekLabel |-> r.label, startDate |-> r.start_date,
      hourlyRate |-> r.hourly_rate, overtimeMultiplier |-> r.overtime_multiplier,
      times |-> r.times.value] : r \in {o \in autosave : o.user_id = u}}

WritesAutosaveOf(u) ==
    \E c \in Clients :
       /\ sessions[c].userId = u
       /\ \/ \E b \in AutosaveBodies : PostAutosave(c, b)
          \/ DeleteAutosave(c)

\* C13: for every user U: a POST /api/autosave by U makes the payload U reads
\* the posted one; a DELETE /api/autosave by U makes it null; every other step
\* (autosave requests of other users, week requests, auth requests) leaves it
\* unchanged; it is null for a user who never autosaved; and GET /api/autosave
\* by U answers exactly that payload, or null.
C13_AutosaveReadYourWrite ==
    [][/\ \A c \in Clients :
             sessions[c].userId # 0 =>
                LET u == sessions[c].userId
                IN /\ \A b \in AutosaveBodies :
                         PostAutosave(c, b) => ReadOf(u)' = {b}
                   /\ DeleteAutosave(c) => ReadOf(u)' = {}
                   /\ GetAutosave(c) =>
                         /\ resp'.status = 200
                         /\ IF ReadOf(u) = {}
                            THEN resp'.body = <<>>
                            ELSE /\ Len(resp'.body) = 1
                                 /\ ReadOf(u) = {resp'.body[1]}
       /\ \A u \in 1..(seq.users + 1) :
             /\ ~WritesAutosaveOf(u) => ReadOf(u)' = ReadOf(u)
             /\ u \notin IdsOf(users) => ReadOf(u) = {}
      ]_vars

\* C13 witness: a user reads back the second draft they posted over the first,
\* while the other user's slot holds the first draft and a week is stored.
C13_Witness ==
    /\ resp.route = "GET /api/autosave"
    /\ resp.status = 200
    /\ resp.body = <<Draft2>>
    /\ seq.autosave = 2
    /\ \E r \in autosave :
          /\ r.user_id # sessions[resp.client].userId
          /\ r.id > 1
          /\ r.label = Draft1.weekLabel
    /\ weeks # {}

\* two tenants saving, listing and deleting weeks while the clock advances
NextListing ==
    \/ TwoTenants(ValidPasswords, ValidPasswords)
    \/ WeeksNext(Clients, {GoodWeek1, GoodWeek2})
    \/ Tick

SpecListing == Init /\ [][NextListing]_vars

\* C14: every answer of GET /api/weeks lists the weeks from the most recently
\* saved to the oldest: of two listed weeks the one saved later (the larger id,
\* a POST /api/weeks being one step) comes first, also when created_at is equal.
C14_RecencyOrder ==
    (resp.route = "GET /api/weeks" /\ resp.status = 200) =>
        \A i, j \in DOMAIN resp.body :
            i < j => resp.body[i].id > resp.body[j].id

\* C15: after every step, every session with a userId carries the id and the
\* username of one existing user (so a register or login on a session of
\* another user replaces both fields together), and GET /api/me on such a
\* session answers with the username of the user with that id.
C15_SessionIdentity ==
    [][\A c \in Clients :
          /\ sessions'[c].userId # 0 =>
                \E r \in users' :
                   sessions'[c] = [userId |-> r.id, username |-> r.username]
          /\ (Me(c) /\ sessions[c].userId # 0) =>
                \E r \in users :
                   /\ r.id = sessions[c].userId
                   /\ resp'.username = r.username
      ]_vars

\* C15 witness: two users exist, the second one's registration put its id in
\* the session of the client that registered it, and now both clients'
\* sessions are the first user's, the last answer being a successful login.
C15_Witness ==
    /\ seq.users = 2
    /\ \A c \in Clients : sessions[c].userId = 1
    /\ \E r \in users : r.id = 1 /\ \A c \in Clients : sessions[c].username = r.username
    /\ resp.route = "POST /api/login"
    /\ resp.status = 200
    /\ resp.id = 1

\* a register or login request of client c answers 400 or 401 in this step
FailedAuthentication(c) ==
    \/ /\ \E u \in Usernames, p \in Passwords :
             RegisterStart(c, u, p) \/ LoginStart(c, u, p)
       /\ pending'[c] = pending[c]
    \/ /\ RegisterFinish(c) \/ LoginFinish(c)
       /\ resp'.status \in {400, 401}

\* C16: a step in which a register or login request answers 400 or 401 leaves
\* the users table and every session unchanged.
C16_FailedAuthChangesNothing ==
    [][\A c \in Clients :
          FailedAuthentication(c) =>
             /\ resp'.status \in {400, 401}
             /\ resp'.client = c
             /\ users' = users
             /\ sessions' = sessions
      ]_vars

\* C16 witness: two users exist, and the last answer is the 401 of a failed
\* login on a client whose session is, after it, still the second user's.
C16_Witness ==
    /\ resp.status = 401
    /\ resp.route = "POST /api/login"
    /\ resp.error = "Invalid username or password"
    /\ seq.users = 2
    /\ \E r \in users :
          sessions[resp.client] = [userId |-> r.id, username |-> r.username]
    /\ sessions[resp.client].userId = 2

====
